---- MODULE Spec2Model ----
(***************************************************************************)
(* Page layout segmentation of paper-gather-system.                        *)
(*                                                                         *)
(* PDFProcessor.convert_to_image rasterizes the pages of a PDF one by one  *)
(* and hands each page image to a PDFImageProcessor, whose                 *)
(* pdf_image_process detects layout blocks, classifies the page as one or  *)
(* two column, orders the blocks, patches vertical gaps with synthetic     *)
(* Text blocks and exports one cropped (and possibly rescaled) image per   *)
(* block.                                                                  *)
(*                                                                         *)
(* Block coordinates are floats in the program.  Here a coordinate is an   *)
(* integer number of 1/Sub pixels, so that int() is a real truncation.     *)
(* Image sizes, crop rectangles and page sizes are whole pixels.           *)
(***************************************************************************)
EXTENDS Integers, Sequences, FiniteSets, TLC

\* ------------------------------------------------------------- bounds

\* Coordinates are multiples of 1/Sub pixel.
Sub == 2
\* Largest number of blocks the detector returns for one page.
MaxBlocks == 3
\* Largest number of pages of the PDF (and largest page_number).
MaxPages == 2
MaxFailedWrites == 1

\* ---------------------------------------------------- program constants

continuous_block_threshold == 100
x_extend == 35
default_max_width == 1200
default_fix_length == 672

\* The page bitmap: US Letter rasterized at the default dpi of 300.
page_width == 2550
page_height == 3300

Labels == {"Text", "Title", "List", "Table", "Figure"}

\* ------------------------------------------------------------ helpers

Min(a, b) == IF a < b THEN a ELSE b
Max(a, b) == IF a > b THEN a ELSE b

\* A coordinate of p pixels plus f/Sub of a pixel.
Px(p, f) == p * Sub + f

\* Python int() of a coordinate: truncation toward zero, in whole pixels.
int(v) == IF v >= 0 THEN v \div Sub ELSE -((-v) \div Sub)

Block(x1, y1, x2, y2, type) ==
    [x1 |-> x1, y1 |-> y1, x2 |-> x2, y2 |-> y2, type |-> type]

\* What the detector can return, in any order: valid rectangles, some on
\* sub-pixel positions. pdf_image_process does not test that a rectangle lies
\* inside the page: the last one lies to the right of it.
DetectableBlocks ==
    { Block(Px(10, 1),  Px(100, 0),  Px(1000, 0), Px(200, 1),  "Title"),
      Block(Px(200, 0), Px(300, 1),  Px(2350, 0), Px(1000, 0), "Text"),
      Block(Px(200, 0), Px(1101, 0), Px(2300, 0), Px(3276, 0), "Text"),
      Block(Px(1300, 0), Px(1100, 1), Px(2050, 0), Px(1500, 0), "List"),
      Block(Px(100, 0), Px(250, 0),  Px(1900, 0), Px(900, 0),  "Text"),
      Block(Px(1200, 0), Px(1500, 0), Px(2475, 0), Px(2400, 0), "Text"),
      Block(Px(100, 0), Px(1200, 0), Px(2400, 0), Px(3295, 0), "Figure"),
      Block(Px(1300, 0), Px(1200, 0), Px(2540, 0), Px(1295, 0), "Table"),
      Block(Px(2600, 0), Px(20, 0), Px(2700, 0), Px(60, 0), "Table") }

Injective(s) == \A i, j \in DOMAIN s : s[i] = s[j] => i = j

Layouts ==
    UNION { { s \in [1..n -> DetectableBlocks] : Injective(s) } : n \in 0..MaxBlocks }

\* ------------------------------------------------- is_two_column

\* ratio_list of is_two_column: one entry per Text or List block, in layout
\* order.  An entry is the block width x_2 - x_1 in 1/Sub pixels; the ratio
\* of the code is that width over Sub * page_width.
RECURSIVE ratio_list(_)
ratio_list(l) ==
    IF l = <<>> THEN <<>>
    ELSE LET block == Head(l)
         IN  IF block.type = "Text" \/ block.type = "List"
             THEN <<block.x2 - block.x1>> \o ratio_list(Tail(l))
             ELSE ratio_list(Tail(l))

RECURSIVE sum(_)
sum(s) == IF s = <<>> THEN 0 ELSE Head(s) + sum(Tail(s))

\* The ratio lists (as whole-pixel widths on a page page_width wide) that the
\* layouts of DetectableBlocks can give and whose mean is exactly 0.5 while
\* the double-precision sum(ratio_list) / len(ratio_list) is
\* 0.5000000000000001.
float_mean_rounds_up ==
    { <<1800, 1275, 750>>, <<1275, 1800, 750>> }

\* The comparison turned round: average_ratio < 0.5.
average_ratio_below_half(ratios, pw) ==
    2 * sum(ratios) < Len(ratios) * Sub * pw

\* The comparison average_ratio > 0.5 of is_two_column, on the widths:
\* sum(w / (Sub * pw)) / n > 1/2  <=>  2 * sum(w) > n * Sub * pw, but for the
\* lists whose double-precision mean is rounded above 0.5.
average_ratio_exceeds_half(ratios, pw) ==
    IF /\ pw = page_width
       /\ \A i \in DOMAIN ratios : ratios[i] % Sub = 0
       /\ [i \in DOMAIN ratios |-> ratios[i] \div Sub] \in float_mean_rounds_up
    THEN TRUE
    ELSE 2 * sum(ratios) > Len(ratios) * Sub * pw

\* PDFImageProcessor.is_two_column: "True" (two column), "False" (one column),
\* or the ZeroDivisionError of sum(ratio_list) / len(ratio_list) on an empty
\* list.
is_two_column(l, pw) ==
    LET ratios == ratio_list(l)
    IN  IF Len(ratios) = 0 THEN "ZeroDivisionError"
        ELSE IF average_ratio_exceeds_half(ratios, pw) THEN "False"
        ELSE "True"

\* ------------------------------------------------- ordering

\* Insert block b into the y1-sorted sequence t before the first element
\* whose key is not smaller (b came earlier in the list being sorted).
RECURSIVE insert_sorted(_, _)
insert_sorted(b, t) ==
    IF t = <<>> THEN <<b>>
    ELSE IF Head(t).y1 >= b.y1 THEN <<b>> \o t
    ELSE <<Head(t)>> \o insert_sorted(b, Tail(t))

\* A sort that leaves the list as it is (sort without inplace=True).
sort_not_inplace(l) == l

\* layout.sort(key=lambda b: b.coordinates[1], inplace=True): Python's stable
\* sort on y_1.
RECURSIVE sort_by_y1(_)
sort_by_y1(l) ==
    IF l = <<>> THEN <<>>
    ELSE insert_sorted(Head(l), sort_by_y1(Tail(l)))

\* ------------------------------------------------- gap patching

\* The gap test with >= in place of >.
is_gap_or_touching(prev, block) ==
    block.y1 - prev.y2 >= continuous_block_threshold * Sub

\* The gap test of the loop over the ordered layout, for the pair
\* (layout[i-1], layout[i]) (here 1-based positions i-1 and i).
is_gap(prev, block) ==
    block.y1 - prev.y2 > continuous_block_threshold * Sub

\* A gap block that takes its left edge from the lower block alone.
gap_block_left_of_block(prev, block) ==
    [x1 |-> block.x1, y1 |-> prev.y2 + 9 * Sub,
     x2 |-> Max(block.x2, prev.x2), y2 |-> block.y1 - 7 * Sub, type |-> "Text"]

\* A gap block that stops 107 pixels above the lower block.
gap_block_wide_margin(prev, block) ==
    Block(Min(block.x1, prev.x2),
          prev.y2 + 9 * Sub,
          Max(block.x2, prev.x2),
          block.y1 - 107 * Sub,
          "Text")

\* A gap block whose right edge is the smaller of the two right edges.
gap_block_min_right(prev, block) ==
    Block(Min(block.x1, prev.x2),
          prev.y2 + 9 * Sub,
          Min(block.x2, prev.x2),
          block.y1 - 7 * Sub,
          "Text")

\* The block synthesized for a gap between prev and block.
gap_block(prev, block) ==
    Block(Min(block.x1, prev.x2),
          prev.y2 + 9 * Sub,
          Max(block.x2, prev.x2),
          block.y1 - 7 * Sub,
          "Text")

\* new_blocks after the loop has visited positions i..Len(l) of l.
RECURSIVE gap_blocks_from(_, _)
gap_blocks_from(l, i) ==
    IF i > Len(l) THEN <<>>
    ELSE IF i > 1 /\ is_gap(l[i - 1], l[i])
         THEN <<gap_block(l[i - 1], l[i])>> \o gap_blocks_from(l, i + 1)
         ELSE gap_blocks_from(l, i + 1)

\* new_blocks of pdf_image_process: nothing on page 1.
find_new_blocks(l, pn) ==
    IF pn # 1 THEN gap_blocks_from(l, 1) ELSE <<>>

\* ------------------------------------------------- crop and resize

\* The extended rectangle without the clamping to the page.
crop_rect_unclamped(block) ==
    [x1 |-> int(block.x1 - x_extend * Sub),
     y1 |-> int(block.y1 - 9 * Sub),
     x2 |-> int(block.x2) + x_extend,
     y2 |-> int(block.y2) + 7]

\* The extended rectangle of a block, clamped to the page, in whole pixels.
crop_rect(block) ==
    [x1 |-> Max(0, int(block.x1 - x_extend * Sub)),
     y1 |-> Max(0, int(block.y1 - 9 * Sub)),
     x2 |-> Min(page_width, int(block.x2) + x_extend),
     y2 |-> Min(page_height, int(block.y2) + 7)]

\* self.image[y1:y2, x1:x2]: the shape of the slice (all bounds are >= 0 here
\* and the upper ones are within the page; an inverted range is empty).
crop(block) ==
    LET r == crop_rect(block)
    IN  [raises |-> FALSE,
         width |-> Max(0, r.x2 - r.x1), height |-> Max(0, r.y2 - r.y1)]

\* The (d, m, M) among the crops of DetectableBlocks and of their gap blocks
\* for which the double-precision product d * (m / M) lies just below the
\* exact integer d * m / M, so that int() of it is one less.
float_product_short ==
    { <<1345, 1000, 1345>>, <<1585, 1000, 1585>>, <<2191, 1000, 2191>>,
      <<2191, 1200, 2191>> }

\* int(d * scale) with scale = m / M computed in double precision.
scaled(d, m, M) ==
    IF <<d, m, M>> \in float_product_short
    THEN (d * m) \div M - 1
    ELSE (d * m) \div M

\* cv2.resize(src, (width, height)): the shape of the result; it raises
\* cv2.error for an empty source or a target size with a zero.
resize(src, width, height) ==
    IF src.width = 0 \/ src.height = 0 \/ width <= 0 \/ height <= 0
    THEN [raises |-> TRUE, width |-> 0, height |-> 0]
    ELSE [raises |-> FALSE, width |-> width, height |-> height]

\* Max-width rescaling by the width alone, not by the larger dimension.
rescale_by_width(segment, type, max_width, fix_size, fix_length) ==
    IF type # "Figure"
    THEN IF segment.height > fix_length /\ fix_size
         THEN resize(segment, fix_length,
                     scaled(segment.width, fix_length, segment.height))
         ELSE IF segment.width > max_width \/ segment.height > max_width
              THEN resize(segment,
                          scaled(segment.width, max_width, segment.width),
                          scaled(segment.height, max_width, segment.width))
              ELSE segment
    ELSE segment

\* Rescaling that does not look at the label.
rescale_any_label(segment, type, max_width, fix_size, fix_length) ==
    IF segment.height > fix_length /\ fix_size
    THEN resize(segment, fix_length,
                scaled(segment.width, fix_length, segment.height))
    ELSE IF segment.width > max_width \/ segment.height > max_width
         THEN resize(segment,
                     scaled(segment.width, max_width,
                            Max(segment.width, segment.height)),
                     scaled(segment.height, max_width,
                            Max(segment.width, segment.height)))
         ELSE segment

\* Rescaling in which fix_size switches the max-width policy off: with
\* fix_size true a crop no higher than fix_length is left as it is.
rescale_fix_size_exclusive(segment, type, max_width, fix_size, fix_length) ==
    IF type # "Figure"
    THEN IF fix_size
         THEN IF segment.height > fix_length
              THEN resize(segment, fix_length,
                          scaled(segment.width, fix_length, segment.height))
              ELSE segment
         ELSE IF segment.width > max_width \/ segment.height > max_width
              THEN resize(segment,
                          scaled(segment.width, max_width,
                                 Max(segment.width, segment.height)),
                          scaled(segment.height, max_width,
                                 Max(segment.width, segment.height)))
              ELSE segment
    ELSE segment

\* The image that reaches cv2.imwrite for a block: the crop, rescaled unless
\* the block is a Figure (raises: the resize raised cv2.error).
rescale(segment, type, max_width, fix_size, fix_length) ==
    IF type # "Figure"
    THEN IF segment.height > fix_length /\ fix_size
         THEN resize(segment, fix_length,
                     scaled(segment.width, fix_length, segment.height))
         ELSE IF segment.width > max_width \/ segment.height > max_width
              THEN resize(segment,
                          scaled(segment.width, max_width,
                                 Max(segment.width, segment.height)),
                          scaled(segment.height, max_width,
                                 Max(segment.width, segment.height)))
              ELSE segment
    ELSE segment

\* cv2.imwrite(path, img): raises cv2.error for an empty image.
imwrite_raises(img) == img.width = 0 \/ img.height = 0

\* What cv2.imwrite can return for a non-empty image: True, or False when the
\* file cannot be written (full disk, no permission). fs is the files written
\* and ss the segments recorded so far for the page; at most MaxFailedWrites
\* writes of a page fail.
imwrite_retvals(fs, ss) ==
    IF Len(ss) - Len(fs) < MaxFailedWrites THEN {TRUE, FALSE} ELSE {TRUE}

\* f"{idx:03d}": the decimal digits of idx, zero-padded to three.
RECURSIVE digits(_)
digits(n) == IF n < 10 THEN <<n>> ELSE digits(n \div 10) \o <<n % 10>>

pad3(n) ==
    LET d == digits(n)
    IN  IF Len(d) >= 3 THEN d ELSE [i \in 1..(3 - Len(d)) |-> 0] \o d

\* File names numbered from 1 instead of 0.
segment_path_from_one(pn, idx, type) ==
    [dir |-> pn, index |-> pad3(idx + 1), type |-> type]

\* os.path.join(self.segments_workspace, f"{idx:03d}_{block.type}.png"); the
\* workspace of a page is segments/page<page_number>.
segment_path(pn, idx, type) ==
    [dir |-> pn, index |-> pad3(idx), type |-> type]

\* ------------------------------------------------------------- state

VARIABLES
    entry,                \* "convert_to_image" or "direct" (processors built by hand)
    args,                 \* the arguments of the entry point
    pc,                   \* position in convert_to_image / pdf_image_process
    page,                 \* page.number + 1 of the current loop iteration; for
                          \* "direct", the number of the processor being built
    image_paths,          \* PDFProcessor.image_paths (pages, by number)
    pdf_image_processors, \* PDFProcessor.pdf_image_processors (by page_number)
    cls_model,            \* PDFImageProcessor._model
    model_loads,          \* how often lp.Detectron2LayoutModel(...) has been built
    page_number,          \* self.page_number
    image_type,           \* self.image_type
    self_model,           \* self.model
    detected,             \* the blocks self.model.detect returned, in the order
                          \* the list holds them (detect's result is the object
                          \* that is sorted in place)
    layout,               \* the Layout object, sorted and extended in place
    self_is_two_column,   \* self._is_two_column
    new_blocks,           \* new_blocks
    idx,                  \* index of the export loop
    segments,             \* self.segments
    files,                \* images written to self.segments_workspace, in order:
                          \* path, size, and the page region (rect) they show
    layout_png,           \* whether layout.png has been written
    raised,               \* the exception that left the entry point, or "none"
    \* PaperProcessor.searchPaperByTopic (src/paper.py)
    paper_pc,             \* position in searchPaperByTopic
    paper_args,           \* check_exist and config["save_paper"]
    search_result,        \* the papers the search returned, each with the
                          \* rating the rating workflow gives it
    documents,            \* titles of the documents in the Paperless store
    paper,                \* position of the loop's paper in search_result
    rated,                \* papers the rating workflow was run for
    tagged,               \* papers the tag workflow was run for
    downloaded,           \* papers whose PDF was downloaded
    uploaded,             \* papers uploaded to Paperless
    paper_raised,         \* the exception that left searchPaperByTopic
    \* PaperlessClient.upload_document (src/core/paperless/paperless.py)
    up_pc,                \* position in upload_document
    call,                 \* tag_ids, tag_names, auto_create_tags of the call
    tags_cache,           \* self._tags_cache (loaded: it is not None)
    server_tags,          \* the tags of the Paperless server, name to id
    next_id,              \* the id the server gives the next tag
    missing_tags,         \* missing_tags
    created,              \* how many names of missing_tags the loop has done
    create_calls,         \* the names create_tag was called with, in order
    requests,             \* the HTTP requests made, in order
    resolved_tag_ids,     \* resolved_tag_ids
    up_raised,            \* the exception that left upload_document
    before                \* tags_cache and server_tags when the call began

pdf_vars == <<entry, args, pc, page, image_paths, pdf_image_processors,
              cls_model, model_loads, page_number, image_type, self_model,
              detected, layout, self_is_two_column, new_blocks, idx, segments,
              files, layout_png, raised>>

paper_vars == <<paper_pc, paper_args, search_result, documents, paper, rated,
                tagged, downloaded, uploaded, paper_raised>>

paperless_vars == <<up_pc, call, tags_cache, server_tags, next_id,
                    missing_tags, created, create_calls, requests,
                    resolved_tag_ids, up_raised, before>>

vars == <<pdf_vars, paper_vars, paperless_vars>>

proc_vars == <<page_number, image_type, self_model, detected, layout,
               self_is_two_column, new_blocks, idx, segments, files,
               layout_png>>

FixLengths == {default_fix_length, 2000}
MaxWidths == {default_max_width, 1000, 10}
ImageTypes == {"research paper", "book"}

\* convert_to_image(process_image, image_enhance, dpi, fix_size, fix_length)
\* on a PDF of 1 to MaxPages pages (how many shows when the loop asks for the
\* next page); the processors it builds get the default max_width and
\* image_type "research paper".
ConvertArgs ==
    [process_image : BOOLEAN, image_enhance : BOOLEAN, fix_size : BOOLEAN,
     fix_length : FixLengths, max_width : {default_max_width}]

\* A caller that builds 1 to MaxPages processors one after the other with
\* PDFImageProcessor(image_path, segments_workspace, page_number, ...), the
\* k-th for page k and of any image_type, and calls pdf_image_process() on
\* them.
DirectArgs ==
    [process_image : {TRUE}, image_enhance : BOOLEAN, fix_size : BOOLEAN,
     fix_length : FixLengths, max_width : MaxWidths]

EmptyMap == [n \in {} |-> 0]

\* No search is running.
paper_idle ==
    /\ paper_pc = "idle"
    /\ paper_args = [check_exist |-> FALSE, save_paper |-> FALSE]
    /\ search_result = <<>>
    /\ documents = {}
    /\ paper = 0
    /\ rated = {}
    /\ tagged = {}
    /\ downloaded = {}
    /\ uploaded = {}
    /\ paper_raised = "none"

\* No upload is running.
paperless_idle ==
    /\ up_pc = "idle"
    /\ call = [tag_ids_given |-> FALSE, tag_ids |-> <<>>,
               tag_names_given |-> FALSE, tag_names |-> <<>>,
               auto_create_tags |-> FALSE]
    /\ tags_cache = [loaded |-> FALSE, map |-> EmptyMap]
    /\ server_tags = EmptyMap
    /\ next_id = 1
    /\ missing_tags = <<>>
    /\ created = 0
    /\ create_calls = <<>>
    /\ requests = <<>>
    /\ resolved_tag_ids = <<>>
    /\ up_raised = "none"
    /\ before = [cache |-> [loaded |-> FALSE, map |-> EmptyMap],
                 server |-> EmptyMap]

\* No PDF is being converted.
pdf_idle ==
    /\ entry = "none"
    /\ args = [process_image |-> FALSE, image_enhance |-> FALSE,
               fix_size |-> FALSE, fix_length |-> default_fix_length,
               max_width |-> default_max_width]
    /\ pc = "idle"
    /\ page = 1
    /\ image_paths = <<>>
    /\ pdf_image_processors = <<>>
    /\ cls_model = "None"
    /\ model_loads = 0
    /\ page_number = 0
    /\ image_type = "none"
    /\ self_model = "None"
    /\ detected = <<>>
    /\ layout = <<>>
    /\ self_is_two_column = "unset"
    /\ new_blocks = <<>>
    /\ idx = 0
    /\ segments = <<>>
    /\ files = <<>>
    /\ layout_png = FALSE
    /\ raised = "none"

Init ==
    /\ entry \in {"convert_to_image", "direct"}
    /\ args \in (IF entry = "convert_to_image" THEN ConvertArgs ELSE DirectArgs)
    /\ pc = (IF entry = "convert_to_image" THEN "loop" ELSE "call")
    /\ page = 1
    /\ image_paths = <<>>
    /\ pdf_image_processors = <<>>
    /\ cls_model = "None"
    /\ model_loads = 0
    /\ page_number = 0
    /\ image_type = "none"
    /\ self_model = "None"
    /\ detected = <<>>
    /\ layout = <<>>
    /\ self_is_two_column = "unset"
    /\ new_blocks = <<>>
    /\ idx = 0
    /\ segments = <<>>
    /\ files = <<>>
    /\ layout_png = FALSE
    /\ raised = "none"
    /\ paper_idle
    /\ paperless_idle

\* ------------------------------------------------------------ actions

\* _load_model always builds the model, also when the class holds one.
always_load(m) == TRUE

\* `if cls._model is None` of _load_model.
must_load(m) == m = "None"

\* PDFImageProcessor._load_model: what cls._model is afterwards.
load_model(m) == IF must_load(m) THEN "Detectron2LayoutModel" ELSE m

\* PDFImageProcessor.__init__ for page pn with image_type t.
construct(pn, t) ==
    /\ page_number' = pn
    /\ image_type' = t
    /\ cls_model' = (IF t = "research paper"
                     THEN load_model(cls_model) ELSE cls_model)
    /\ model_loads' = (IF t = "research paper" /\ must_load(cls_model)
                       THEN model_loads + 1 ELSE model_loads)
    /\ self_model' = (IF t = "research paper"
                      THEN load_model(cls_model) ELSE "None")
    /\ detected' = <<>>
    /\ layout' = <<>>
    /\ self_is_two_column' = "unset"
    /\ new_blocks' = <<>>
    /\ idx' = 0
    /\ segments' = <<>>
    /\ files' = <<>>
    /\ layout_png' = FALSE

\* An exception that is caught and logged where it arises: the call returns
\* as if it had finished.
Swallow(e) ==
    /\ pc' = "returned"
    /\ raised' = e

Raise(e) ==
    /\ pc' = "raised"
    /\ raised' = e

\* convert_to_image: the document has another page; it is rendered and
\* saved, its path is recorded and its segment directory created.
Rasterize ==
    /\ pc = "loop"
    /\ page <= MaxPages
    /\ image_paths' = Append(image_paths, page)
    /\ pc' = "rasterized"
    /\ UNCHANGED <<paper_vars, paperless_vars,
                   entry, args, page, pdf_image_processors, cls_model,
                   model_loads, proc_vars, raised>>

\* convert_to_image with process_image: the page's processor is built.
Construct ==
    /\ pc = "rasterized"
    /\ args.process_image
    /\ construct(page, "research paper")
    /\ pc' = "constructed"
    /\ UNCHANGED <<paper_vars, paperless_vars,
                   entry, args, page, image_paths, pdf_image_processors,
                   raised>>

\* convert_to_image without process_image: on to the next page.
SkipProcess ==
    /\ pc = "rasterized"
    /\ ~args.process_image
    /\ page' = page + 1
    /\ pc' = "loop"
    /\ UNCHANGED <<paper_vars, paperless_vars,
                   entry, args, image_paths, pdf_image_processors, cls_model,
                   model_loads, proc_vars, raised>>

\* A processor built directly by a caller.
DirectConstruct ==
    /\ pc = "call"
    /\ page <= MaxPages
    /\ \E t \in ImageTypes : construct(page, t)
    /\ pc' = "constructed"
    /\ UNCHANGED <<paper_vars, paperless_vars,
                   entry, args, page, image_paths, pdf_image_processors,
                   raised>>

\* The caller is done with a processor, whether or not it has called
\* pdf_image_process() on it, and turns to the next one.
DirectNext ==
    /\ entry = "direct"
    /\ pc \in {"constructed", "returned"}
    /\ page' = page + 1
    /\ pc' = "call"
    /\ UNCHANGED <<paper_vars, paperless_vars,
                   entry, args, image_paths, pdf_image_processors, cls_model,
                   model_loads, proc_vars, raised>>

\* Detection that does not test self.model first.
DetectWithoutModelTest ==
    /\ pc = "constructed"
    /\ \E l \in Layouts :
          /\ detected' = l
          /\ layout' = l
    /\ pc' = "detected"
    /\ UNCHANGED <<paper_vars, paperless_vars,
                   entry, args, page, image_paths, pdf_image_processors,
                   cls_model, model_loads, page_number, image_type,
                   self_model, self_is_two_column, new_blocks, idx, segments,
                   files, layout_png, raised>>

\* pdf_image_process: the test of self.model and layout = self.model.detect(image).
Detect ==
    /\ pc = "constructed"
    /\ IF self_model = "None"
       THEN /\ Raise("ValueError")
            /\ UNCHANGED <<detected, layout>>
       ELSE /\ \E l \in Layouts :
                 /\ detected' = l
                 /\ layout' = l
            /\ pc' = "detected"
            /\ UNCHANGED raised
    /\ UNCHANGED <<paper_vars, paperless_vars,
                   entry, args, page, image_paths, pdf_image_processors,
                   cls_model, model_loads, page_number, image_type,
                   self_model, self_is_two_column, new_blocks, idx, segments,
                   files, layout_png>>

\* self._is_two_column = self.is_two_column(layout)
Classify ==
    /\ pc = "detected"
    /\ LET r == is_two_column(layout, page_width)
       IN  IF r = "ZeroDivisionError"
           THEN /\ Raise("ZeroDivisionError")
                /\ UNCHANGED self_is_two_column
           ELSE /\ self_is_two_column' = r
                /\ pc' = "classified"
                /\ UNCHANGED raised
    /\ UNCHANGED <<paper_vars, paperless_vars,
                   entry, args, page, image_paths, pdf_image_processors,
                   cls_model, model_loads, page_number, image_type,
                   self_model, detected, layout, new_blocks, idx, segments,
                   files, layout_png>>

\* The branch on self._is_two_column: process_two_column is not a method of
\* the class (AttributeError); otherwise the layout is sorted by y_1.
Order ==
    /\ pc = "classified"
    /\ IF self_is_two_column = "True"
       THEN /\ Raise("AttributeError")
            /\ UNCHANGED <<detected, layout>>
       ELSE /\ layout' = sort_by_y1(layout)
            /\ detected' = sort_by_y1(detected)
            /\ pc' = "ordered"
            /\ UNCHANGED raised
    /\ UNCHANGED <<paper_vars, paperless_vars,
                   entry, args, page, image_paths, pdf_image_processors,
                   cls_model, model_loads, page_number, image_type,
                   self_model, self_is_two_column, new_blocks, idx,
                   segments, files, layout_png>>

\* Gap patching that writes the synthetic rectangle into the block below the
\* gap instead of adding a new block for it.
GapPatchInPlace ==
    /\ pc = "ordered"
    /\ new_blocks' = find_new_blocks(layout, page_number)
    /\ layout' = sort_by_y1(
                    [i \in DOMAIN layout |->
                       IF page_number # 1 /\ i > 1
                            /\ is_gap(layout[i - 1], layout[i])
                       THEN gap_block(layout[i - 1], layout[i])
                       ELSE layout[i]])
    /\ idx' = 0
    /\ pc' = "export"
    /\ UNCHANGED <<paper_vars, paperless_vars,
                   entry, args, page, image_paths, pdf_image_processors,
                   cls_model, model_loads, page_number, image_type,
                   self_model, detected, self_is_two_column, segments, files,
                   layout_png, raised>>

\* Gap patching that appends the new blocks and does not sort again.
GapPatchNoSort ==
    /\ pc = "ordered"
    /\ new_blocks' = find_new_blocks(layout, page_number)
    /\ layout' = layout \o find_new_blocks(layout, page_number)
    /\ idx' = 0
    /\ pc' = "export"
    /\ UNCHANGED <<paper_vars, paperless_vars,
                   entry, args, page, image_paths, pdf_image_processors,
                   cls_model, model_loads, page_number, image_type,
                   self_model, detected, self_is_two_column, segments, files,
                   layout_png, raised>>

\* Gap detection, layout.extend(new_blocks) and the re-sort.
\* Gap patching that puts the synthetic blocks in front of the list and does
\* not sort again.
GapPatchPrepend ==
    /\ pc = "ordered"
    /\ new_blocks' = find_new_blocks(layout, page_number)
    /\ layout' = find_new_blocks(layout, page_number) \o layout
    /\ idx' = 0
    /\ pc' = "export"
    /\ UNCHANGED <<paper_vars, paperless_vars,
                   entry, args, page, image_paths, pdf_image_processors,
                   cls_model, model_loads, page_number, image_type,
                   self_model, detected, self_is_two_column, segments, files,
                   layout_png, raised>>

GapPatch ==
    /\ pc = "ordered"
    /\ new_blocks' = find_new_blocks(layout, page_number)
    /\ layout' = sort_by_y1(layout \o find_new_blocks(layout, page_number))
    /\ idx' = 0
    /\ pc' = "export"
    /\ UNCHANGED <<paper_vars, paperless_vars,
                   entry, args, page, image_paths, pdf_image_processors,
                   cls_model, model_loads, page_number, image_type,
                   self_model, detected, self_is_two_column, segments, files,
                   layout_png, raised>>

\* An export loop in which image_enhance replaces the rescaling.
CropExportEnhanced ==
    /\ pc = "export"
    /\ idx < Len(layout)
    /\ LET block == layout[idx + 1]
           img == IF args.image_enhance
                  THEN crop(block)
                  ELSE rescale(crop(block), block.type, args.max_width,
                               args.fix_size, args.fix_length)
           output_path == segment_path(page_number, idx, block.type)
       IN  IF img.raises \/ imwrite_raises(img)
           THEN /\ Raise("cv2.error")
                /\ UNCHANGED <<idx, segments, files>>
           ELSE /\ \E retval \in imwrite_retvals(files, segments) :
                      files' = IF retval
                               THEN Append(files, [path |-> output_path,
                                                   rect |-> crop_rect(block),
                                                   width |-> img.width,
                                                   height |-> img.height])
                               ELSE files
                /\ segments' = Append(segments, [image_path |-> output_path,
                                                 type |-> block.type])
                /\ idx' = idx + 1
                /\ UNCHANGED <<pc, raised>>
    /\ UNCHANGED <<paper_vars, paperless_vars,
                   entry, args, page, image_paths, pdf_image_processors,
                   cls_model, model_loads, page_number, image_type,
                   self_model, detected, layout, self_is_two_column,
                   new_blocks, layout_png>>

\* One iteration of the export loop: crop, rescale, write, record. The value
\* cv2.imwrite returns is not looked at: the segment is recorded and the loop
\* goes on whether or not the file was written.
CropExport ==
    /\ pc = "export"
    /\ idx < Len(layout)
    /\ LET block == layout[idx + 1]
           img == rescale(crop(block), block.type, args.max_width,
                          args.fix_size, args.fix_length)
           output_path == segment_path(page_number, idx, block.type)
       IN  IF img.raises \/ imwrite_raises(img)
           THEN /\ Raise("cv2.error")
                /\ UNCHANGED <<idx, segments, files>>
           ELSE /\ \E retval \in imwrite_retvals(files, segments) :
                      files' = IF retval
                               THEN Append(files, [path |-> output_path,
                                                   rect |-> crop_rect(block),
                                                   width |-> img.width,
                                                   height |-> img.height])
                               ELSE files
                /\ segments' = Append(segments, [image_path |-> output_path,
                                                 type |-> block.type])
                /\ idx' = idx + 1
                /\ UNCHANGED <<pc, raised>>
    /\ UNCHANGED <<paper_vars, paperless_vars,
                   entry, args, page, image_paths, pdf_image_processors,
                   cls_model, model_loads, page_number, image_type,
                   self_model, detected, layout, self_is_two_column,
                   new_blocks, layout_png>>

\* A return from inside the export loop, before its last iteration.
ReturnInsideLoop ==
    /\ pc = "export"
    /\ layout_png' = TRUE
    /\ pc' = "returned"
    /\ UNCHANGED <<paper_vars, paperless_vars,
                   entry, args, page, image_paths, pdf_image_processors,
                   cls_model, model_loads, page_number, image_type,
                   self_model, detected, layout, self_is_two_column,
                   new_blocks, idx, segments, files, raised>>

\* After the loop: layout.png is drawn and saved, the layout returned.
Return ==
    /\ pc = "export"
    /\ idx = Len(layout)
    /\ layout_png' = TRUE
    /\ pc' = "returned"
    /\ UNCHANGED <<paper_vars, paperless_vars,
                   entry, args, page, image_paths, pdf_image_processors,
                   cls_model, model_loads, page_number, image_type,
                   self_model, detected, layout, self_is_two_column,
                   new_blocks, idx, segments, files, raised>>

\* convert_to_image: the processor is kept and the loop goes on.
AppendProcessor ==
    /\ pc = "returned"
    /\ entry = "convert_to_image"
    /\ pdf_image_processors' = Append(pdf_image_processors, page_number)
    /\ page' = page + 1
    /\ pc' = "loop"
    /\ UNCHANGED <<paper_vars, paperless_vars,
                   entry, args, image_paths, cls_model, model_loads,
                   proc_vars, raised>>

\* The end of the entry point: convert_to_image after the last page of the
\* document (it has at least one), or the direct caller after its last
\* processor.
Finish ==
    /\ pc \in {"loop", "call"}
    /\ page > 1
    /\ pc' = "done"
    /\ UNCHANGED <<paper_vars, paperless_vars,
                   entry, args, page, image_paths, pdf_image_processors,
                   cls_model, model_loads, proc_vars, raised>>

Next ==
    \/ Rasterize
    \/ Construct
    \/ SkipProcess
    \/ DirectConstruct
    \/ DirectNext
    \/ Detect
    \/ Classify
    \/ Order
    \/ GapPatch
    \/ CropExport
    \/ Return
    \/ AppendProcessor
    \/ Finish

Spec == Init /\ [][Next]_vars

\* ------------------------------------------- searchPaperByTopic (src/paper.py)

MaxPapers == 2

Titles == {"t1", "t2"}
Ratings == {"A", "B", "C"}

\* A paper of the search result: its title, and the rating the rating
\* workflow returns for it.
Papers == [title : Titles, rating : Ratings]

SearchResults ==
    UNION { [1..n -> Papers] : n \in 0..MaxPapers }

\* A rating test that lets rating C pass as well.
rating_passes_c(rating) == rating \in {"A", "B", "C"}

\* llm_eval['rating'] == "A" or llm_eval['rating'] == "B"
rating_passes(rating) == rating = "A" \/ rating = "B"

\* searchPaperByTopic(topic, search_limit, check_exist, searngx_kwargs) with
\* config["save_paper"], after the search returned search_result; the store
\* holds any of the titles.
InitPaper ==
    /\ paper_pc = "loop"
    /\ paper_args \in [check_exist : BOOLEAN, save_paper : BOOLEAN]
    /\ search_result \in SearchResults
    /\ documents \in SUBSET Titles
    /\ paper = 1
    /\ rated = {}
    /\ tagged = {}
    /\ downloaded = {}
    /\ uploaded = {}
    /\ paper_raised = "none"
    /\ pdf_idle
    /\ paperless_idle

\* The end of a loop iteration.
next_paper ==
    /\ paper' = paper + 1
    /\ paper_pc' = "loop"

\* What is recorded of the loop's paper: its position, and whether a document
\* of its title is in the store at that moment.
current_paper ==
    [paper |-> paper, existed |-> search_result[paper].title \in documents]

\* The test of line 72: with check_exist false the and short-circuits; with
\* check_exist true self.paperless_client.document_exists is looked up, and
\* PaperlessClient has no such attribute.
CheckExist ==
    /\ paper_pc = "loop"
    /\ paper <= Len(search_result)
    /\ IF paper_args.check_exist
       THEN /\ paper_pc' = "raised"
            /\ paper_raised' = "AttributeError"
       ELSE /\ paper_pc' = "rate"
            /\ UNCHANGED paper_raised
    /\ UNCHANGED <<pdf_vars, paperless_vars, paper_args, search_result,
                   documents, paper, rated, tagged, downloaded, uploaded>>

\* The rating workflow and the test of its rating.
Rate ==
    /\ paper_pc = "rate"
    /\ rated' = rated \cup {current_paper}
    /\ IF rating_passes(search_result[paper].rating)
       THEN paper_pc' = "tag" /\ UNCHANGED paper
       ELSE next_paper
    /\ UNCHANGED <<pdf_vars, paperless_vars, paper_args, search_result,
                   documents, tagged, downloaded, uploaded, paper_raised>>

\* The workspace directory, the tag workflow and paper.setTag.
Tag ==
    /\ paper_pc = "tag"
    /\ tagged' = tagged \cup {current_paper}
    /\ IF paper_args.save_paper
       THEN paper_pc' = "download" /\ UNCHANGED paper
       ELSE next_paper
    /\ UNCHANGED <<pdf_vars, paperless_vars, paper_args, search_result,
                   documents, rated, downloaded, uploaded, paper_raised>>

\* paper.downloadPdf(save_path=paper_workspace)
Download ==
    /\ paper_pc = "download"
    /\ downloaded' = downloaded \cup {current_paper}
    /\ paper_pc' = "upload"
    /\ UNCHANGED <<pdf_vars, paperless_vars, paper_args, search_result,
                   documents, paper, rated, tagged, uploaded, paper_raised>>

\* self.paperless_client.upload_document(...): the document is stored, or the
\* request fails and PaperlessAPIError leaves the function.
Upload ==
    /\ paper_pc = "upload"
    /\ \/ /\ uploaded' = uploaded \cup {current_paper}
          /\ documents' = documents \cup {search_result[paper].title}
          /\ paper_pc' = "clear"
          /\ UNCHANGED paper_raised
       \/ /\ paper_pc' = "raised"
          /\ paper_raised' = "PaperlessAPIError"
          /\ UNCHANGED <<uploaded, documents>>
    /\ UNCHANGED <<pdf_vars, paperless_vars, paper_args, search_result,
                   paper, rated, tagged, downloaded>>

\* paper.clearPdf()
ClearPdf ==
    /\ paper_pc = "clear"
    /\ next_paper
    /\ UNCHANGED <<pdf_vars, paperless_vars, paper_args, search_result,
                   documents, rated, tagged, downloaded, uploaded,
                   paper_raised>>

\* The loop is over.
FinishSearch ==
    /\ paper_pc = "loop"
    /\ paper > Len(search_result)
    /\ paper_pc' = "done"
    /\ UNCHANGED <<pdf_vars, paperless_vars, paper_args, search_result,
                   documents, paper, rated, tagged, downloaded, uploaded,
                   paper_raised>>

NextSearch ==
    \/ CheckExist
    \/ Rate
    \/ Tag
    \/ Download
    \/ Upload
    \/ ClearPdf
    \/ FinishSearch

SpecPaper == InitPaper /\ [][NextSearch]_vars

\* ---------------- upload_document (src/core/paperless/paperless.py)

MaxTagNames == 3

Names == {"ml", "nlp"}

\* The id a tag has when it is on the server from the start.
initial_id(name) == IF name = "ml" THEN 1 ELSE 2

\* The first id the server gives to a tag created later.
first_new_id == Cardinality(Names) + 1

\* The maps that hold part of the entries of m.
SubMaps(m) == { [n \in S |-> m[n]] : S \in SUBSET DOMAIN m }

\* tag_names when given: a list of names, repeats allowed.
TagNameLists == UNION { [1..n -> Names] : n \in 0..MaxTagNames }

UploadCalls ==
    [tag_ids_given : BOOLEAN, tag_ids : {<<>>, <<1>>},
     tag_names_given : BOOLEAN, tag_names : TagNameLists,
     auto_create_tags : BOOLEAN]

\* upload_document(file_path, tag_ids=..., tag_names=...,
\* auto_create_tags=...) on a client whose tag cache is not loaded yet or was
\* loaded earlier (and may since lack tags the server has).
InitPaperless ==
    /\ up_pc = "call"
    /\ call \in { c \in UploadCalls :
                    /\ ~c.tag_ids_given => c.tag_ids = <<>>
                    /\ ~c.tag_names_given => c.tag_names = <<>> }
    /\ server_tags \in { [n \in S |-> initial_id(n)] : S \in SUBSET Names }
    /\ tags_cache \in
          {[loaded |-> FALSE, map |-> EmptyMap]}
             \cup { [loaded |-> TRUE, map |-> m] : m \in SubMaps(server_tags) }
    /\ next_id = first_new_id
    /\ missing_tags = <<>>
    /\ created = 0
    /\ create_calls = <<>>
    /\ requests = <<>>
    /\ resolved_tag_ids = <<>>
    /\ up_raised = "none"
    /\ before = [cache |-> tags_cache, server |-> server_tags]
    /\ pdf_idle
    /\ paper_idle

\* m with name mapped to id (dict assignment).
set_item(m, name, id) ==
    [n \in DOMAIN m \cup {name} |-> IF n = name THEN id ELSE m[n]]

\* Auto-creation that does not look at auto_create_tags.
must_create_always(missing, auto_create) == missing # <<>>

\* missing_tags and auto_create_tags
must_create(missing, auto_create) == missing # <<>> /\ auto_create

\* The test for both tag_ids and tag_names, and resolved_tag_ids = tag_ids.
Validate ==
    /\ up_pc = "call"
    /\ IF call.tag_ids_given /\ call.tag_names_given
       THEN /\ up_pc' = "raised"
            /\ up_raised' = "ValueError"
            /\ UNCHANGED resolved_tag_ids
       ELSE /\ resolved_tag_ids' = call.tag_ids
            /\ up_pc' = (IF call.tag_names_given THEN "get_tags" ELSE "post")
            /\ UNCHANGED up_raised
    /\ UNCHANGED <<pdf_vars, paper_vars, call, tags_cache, server_tags,
                   next_id, missing_tags, created, create_calls, requests,
                   before>>

\* tag_map = self.get_tags() (the cache dict itself, loaded from the server
\* when it is None), missing_tags, and the branch on it.
GetTags ==
    /\ up_pc = "get_tags"
    /\ LET tag_map == IF tags_cache.loaded THEN tags_cache.map
                      ELSE server_tags
           missing == SelectSeq(call.tag_names,
                                LAMBDA name : name \notin DOMAIN tag_map)
       IN  /\ tags_cache' = [loaded |-> TRUE, map |-> tag_map]
           /\ requests' = IF tags_cache.loaded THEN requests
                          ELSE Append(requests, "GET /api/tags/")
           /\ missing_tags' = missing
           /\ IF must_create(missing, call.auto_create_tags)
              THEN up_pc' = "create" /\ UNCHANGED up_raised
              ELSE IF missing # <<>>
                   THEN up_pc' = "raised" /\ up_raised' = "ValueError"
                   ELSE up_pc' = "resolve" /\ UNCHANGED up_raised
    /\ UNCHANGED <<pdf_vars, paper_vars, call, server_tags, next_id, created,
                   create_calls, resolved_tag_ids, before>>

\* One iteration of the loop over missing_tags: create_tag(name) posts the
\* tag; the server stores it under a new id, or refuses a name it already has
\* (PaperlessAPIError); the new id is written into the cache dict, which is
\* tag_map.
CreateTag ==
    /\ up_pc = "create"
    /\ created < Len(missing_tags)
    /\ LET name == missing_tags[created + 1]
       IN  /\ create_calls' = Append(create_calls, name)
           /\ requests' = Append(requests, "POST /api/tags/")
           /\ \/ /\ server_tags' = set_item(server_tags, name, next_id)
                 /\ next_id' = next_id + 1
                 /\ tags_cache' = [loaded |-> TRUE,
                                   map |-> set_item(tags_cache.map, name,
                                                    next_id)]
                 /\ created' = created + 1
                 /\ UNCHANGED <<up_pc, up_raised>>
              \/ /\ name \in DOMAIN server_tags
                 /\ up_pc' = "raised"
                 /\ up_raised' = "PaperlessAPIError"
                 /\ UNCHANGED <<server_tags, next_id, tags_cache, created>>
    /\ UNCHANGED <<pdf_vars, paper_vars, call, missing_tags,
                   resolved_tag_ids, before>>

\* resolved_tag_ids = [tag_map[name] for name in tag_names]
Resolve ==
    /\ \/ up_pc = "create" /\ created = Len(missing_tags)
       \/ up_pc = "resolve"
    /\ resolved_tag_ids' = [i \in DOMAIN call.tag_names |->
                               tags_cache.map[call.tag_names[i]]]
    /\ up_pc' = "post"
    /\ UNCHANGED <<pdf_vars, paper_vars, call, tags_cache, server_tags,
                   next_id, missing_tags, created, create_calls, requests,
                   up_raised, before>>

\* The upload request with the metadata, tags included.
PostDocument ==
    /\ up_pc = "post"
    /\ requests' = Append(requests, "POST /api/documents/post_document/")
    /\ up_pc' = "done"
    /\ UNCHANGED <<pdf_vars, paper_vars, call, tags_cache, server_tags,
                   next_id, missing_tags, created, create_calls,
                   resolved_tag_ids, up_raised, before>>

NextUpload ==
    \/ Validate
    \/ GetTags
    \/ CreateTag
    \/ Resolve
    \/ PostDocument

SpecPaperless == InitPaperless /\ [][NextUpload]_vars

\* ------------------------------------------------------------- claims

TextOrList(b) == b.type = "Text" \/ b.type = "List"

\* Sum of the widths x2 - x1 of the blocks of l at the positions S.
RECURSIVE SumWidths(_, _)
SumWidths(l, S) ==
    IF S = {} THEN 0
    ELSE LET i == CHOOSE k \in S : TRUE
         IN  (l[i].x2 - l[i].x1) + SumWidths(l, S \ {i})

\* The number written by the three digits of a file name.
IndexValue(d) == 100 * d[1] + 10 * d[2] + d[3]

\* The block of the final list a written file was cropped from.
FileBlock(f) == layout[IndexValue(f.path.index) + 1]

IsSortedByY1(l) == \A i, j \in DOMAIN l : i < j => l[i].y1 <= l[j].y1

\* C1: on a page classified single-column, the k-th emitted segment (file
\* index k-1) is the k-th block of the final list, and the emitted segments
\* follow ascending y1: for positions i < j, y1 of block i <= y1 of block j;
\* when the page is finished every block of the final list has been emitted.
C1_SingleColumnOrder ==
    self_is_two_column = "False" =>
        /\ Len(files) <= Len(segments)
        /\ Len(segments) <= Len(layout)
        /\ pc = "returned" => Len(segments) = Len(layout)
        /\ \A i \in DOMAIN segments :
              /\ segments[i].image_path.index = pad3(i - 1)
              /\ segments[i].type = layout[i].type
        /\ \A i \in DOMAIN files :
              /\ IndexValue(files[i].path.index) + 1 \in DOMAIN segments
              /\ files[i].path
                    = segments[IndexValue(files[i].path.index) + 1].image_path
              /\ files[i].rect = crop_rect(FileBlock(files[i]))
        /\ \A i, j \in DOMAIN files :
              i < j => /\ IndexValue(files[i].path.index)
                            < IndexValue(files[j].path.index)
                       /\ FileBlock(files[i]).y1 <= FileBlock(files[j]).y1
                       /\ files[i].rect.y1 <= files[j].rect.y1

\* A single-column page, not page 1, whose detector output had a gap, fully
\* exported: four files or more, of more than one label.
C1_Witness ==
    /\ self_is_two_column = "False"
    /\ pc = "returned"
    /\ Len(files) >= 4
    /\ new_blocks # <<>>
    /\ \E i, j \in DOMAIN files : files[i].path.type # files[j].path.type

\* Horizontal centre of a block left of the page midline (in 1/Sub pixels,
\* doubled to stay in integers).
InLeftColumn(b) == b.x1 + b.x2 < page_width * Sub

\* C2: a page classified two-column is segmented without error, every
\* segment of the left-column partition precedes every segment of the
\* right-column partition, and each partition is in ascending y1 order.
C2_TwoColumnOrder ==
    self_is_two_column = "True" =>
        /\ raised = "none"
        /\ pc = "returned" => Len(files) = Len(layout)
        /\ \A i, j \in DOMAIN files :
              i < j =>
                 /\ ~(~InLeftColumn(layout[i]) /\ InLeftColumn(layout[j]))
                 /\ InLeftColumn(layout[i]) = InLeftColumn(layout[j])
                       => layout[i].y1 <= layout[j].y1

\* C3: is_two_column answers two-column exactly when the mean of
\* (x2 - x1) / page_width over the Text and List blocks is <= 0.5 (a mean of
\* exactly 0.5 is two-column) and single-column exactly when it is > 0.5;
\* blocks of the other labels do not enter the mean.  Widths 400 and 420 on
\* a 1000-wide page give two-column, one 950-wide block gives single-column.
C3_ColumnClassification ==
    /\ self_is_two_column # "unset" =>
          LET S == { i \in DOMAIN detected : TextOrList(detected[i]) }
          IN  /\ S # {}
              /\ self_is_two_column = "True" <=>
                    2 * SumWidths(detected, S) <= Cardinality(S) * Sub * page_width
              /\ self_is_two_column = "False" <=>
                    2 * SumWidths(detected, S) > Cardinality(S) * Sub * page_width
    /\ is_two_column(<<Block(Px(50, 0), Px(10, 0), Px(450, 0), Px(40, 0), "Text"),
                       Block(Px(520, 0), Px(10, 0), Px(940, 0), Px(40, 0), "Text")>>,
                     1000) = "True"
    /\ is_two_column(<<Block(Px(25, 0), Px(10, 0), Px(975, 0), Px(40, 0), "Text")>>,
                     1000) = "False"

Range(l) == { l[i] : i \in DOMAIN l }

Count(l, b) == Cardinality({ i \in DOMAIN l : l[i] = b })

\* Positions i of the ordered list l whose gap to position i-1 exceeds 100
\* pixels.
GapPositions(l) ==
    { i \in 2..Len(l) : l[i].y1 - l[i - 1].y2 > 100 * Sub }

\* The gap-patching step: from the ordered list to the patched one.
GapPatchStep == pc = "ordered" /\ pc' = "export"

\* C4: on page 1 gap patching inserts nothing; on any other page a synthetic
\* block is inserted for the adjacent pair (i-1, i) of the ordered list if
\* and only if y1[i] - y2[i-1] > 100, and the number of synthetic blocks is
\* the number of such pairs.
C4_GapPatchFires ==
    [][GapPatchStep =>
         IF page_number = 1
         THEN new_blocks' = <<>>
         ELSE /\ \A i \in 2..Len(layout) :
                    (layout[i].y1 - layout[i - 1].y2 > 100 * Sub) <=>
                       \E k \in DOMAIN new_blocks' :
                          /\ new_blocks'[k].y1 = layout[i - 1].y2 + 9 * Sub
                          /\ new_blocks'[k].y2 = layout[i].y1 - 7 * Sub
              /\ Len(new_blocks') = Cardinality(GapPositions(layout))]_vars

\* A page other than page 1, patched: three detected blocks, one pair with a
\* gap of exactly 100 pixels and one pair with a larger gap; one block added.
C4_Witness ==
    /\ pc = "export"
    /\ page_number # 1
    /\ Len(detected) = 3
    /\ Len(new_blocks) = 1
    /\ \E i \in 2..Len(layout) : layout[i].y1 - layout[i - 1].y2 = 100 * Sub

\* C5: each synthetic block has label Text and, for the adjacent detected
\* blocks prev = block[i-1] and block = block[i] whose gap it fills,
\* x1 = min(block.x1, prev.x2), x2 = max(block.x2, prev.x2),
\* y1 = prev.y2 + 9 and y2 = block.y1 - 7.  Ordered blocks with y2[1] = 90 and
\* y1[2] = 400 give one synthetic block with y1 = 99 and y2 = 393.
C5_SyntheticBlockShape ==
    [][GapPatchStep =>
         /\ \A k \in DOMAIN new_blocks' :
               \E i \in GapPositions(layout) :
                  /\ layout[i - 1] \in Range(detected)
                  /\ layout[i] \in Range(detected)
                  /\ new_blocks'[k].type = "Text"
                  /\ new_blocks'[k].x1 = Min(layout[i].x1, layout[i - 1].x2)
                  /\ new_blocks'[k].x2 = Max(layout[i].x2, layout[i - 1].x2)
                  /\ new_blocks'[k].y1 = layout[i - 1].y2 + 9 * Sub
                  /\ new_blocks'[k].y2 = layout[i].y1 - 7 * Sub
         /\ LET example == <<Block(Px(100, 0), Px(10, 0), Px(900, 0), Px(40, 0), "Title"),
                             Block(Px(100, 0), Px(50, 0), Px(900, 0), Px(90, 0), "Text"),
                             Block(Px(100, 0), Px(400, 0), Px(900, 0), Px(450, 0), "Text")>>
                patch == find_new_blocks(example, 2)
            IN  /\ Len(patch) = 1
                /\ patch[1].y1 = Px(99, 0)
                /\ patch[1].y2 = Px(393, 0)
                /\ patch[1].x1 = Px(100, 0)
                /\ patch[1].x2 = Px(900, 0)]_vars

\* A patched page with a synthetic block between an upper block and a lower
\* block lying wholly to its right: the left edge is the upper block's right
\* edge, the right edge the lower block's.
C5_Witness ==
    /\ pc = "export"
    /\ \E k \in DOMAIN new_blocks : \E prev, block \in Range(detected) :
          /\ new_blocks[k].y1 = prev.y2 + 9 * Sub
          /\ new_blocks[k].y2 = block.y1 - 7 * Sub
          /\ prev.x2 < block.x1
          /\ new_blocks[k].x1 = prev.x2
          /\ new_blocks[k].x2 = block.x2

\* C6: after gap patching the final list holds every detected block exactly
\* once plus the synthetic blocks and nothing else, and it is sorted
\* ascending by y1, on page 1 as on every other page.
C6_FinalListPermutationSorted ==
    pc \in {"export", "returned"} =>
        /\ Len(layout) = Len(detected) + Len(new_blocks)
        /\ \A b \in Range(layout) \cup Range(detected) \cup Range(new_blocks) :
              Count(layout, b) = Count(detected, b) + Count(new_blocks, b)
        /\ \A b \in Range(detected) : Count(layout, b) = 1
        /\ IsSortedByY1(layout)

\* A patched list in which the re-sort moved a synthetic block in front of a
\* detected one.
C6_Witness ==
    /\ pc = "export"
    /\ new_blocks # <<>>
    /\ \E i, j \in DOMAIN layout :
          /\ i < j
          /\ layout[i] \in Range(new_blocks)
          /\ layout[j] \in Range(detected)

\* C7: with no block labelled Text or List (an empty detection included),
\* column classification raises nothing and yields single-column, and the
\* page goes on to the plain ascending-y1 sort.
C7_EmptyColumnStatistics ==
    (pc # "constructed" /\ self_model # "None"
       /\ \A i \in DOMAIN detected : ~TextOrList(detected[i])) =>
        /\ raised = "none"
        /\ pc # "detected" => self_is_two_column = "False"
        /\ pc \in {"ordered", "export", "returned"} => IsSortedByY1(layout)

CropWidth(f) == f.rect.x2 - f.rect.x1
CropHeight(f) == f.rect.y2 - f.rect.y1

\* C8: with fix_size false, the exported image of a non-Figure block has
\* max(width, height) <= max_width: a crop with a dimension above max_width
\* is scaled down, a crop within the bound is exported unchanged.
C8_MaxWidthBound ==
    \A k \in DOMAIN files :
        (files[k].path.type # "Figure" /\ ~args.fix_size) =>
            /\ Max(files[k].width, files[k].height) <= args.max_width
            /\ (CropWidth(files[k]) <= args.max_width
                  /\ CropHeight(files[k]) <= args.max_width) =>
                  /\ files[k].width = CropWidth(files[k])
                  /\ files[k].height = CropHeight(files[k])
            /\ (CropWidth(files[k]) > args.max_width
                  \/ CropHeight(files[k]) > args.max_width) =>
                  /\ files[k].width < CropWidth(files[k])
                  /\ files[k].height < CropHeight(files[k])

\* Without fix_size: a non-Figure crop taller than wide and above max_width
\* has been exported, and so has one within the bound.
C8_Witness ==
    /\ ~args.fix_size
    /\ \E k \in DOMAIN files :
          /\ files[k].path.type # "Figure"
          /\ CropHeight(files[k]) > CropWidth(files[k])
          /\ CropWidth(files[k]) > args.max_width
    /\ \E k \in DOMAIN files :
          /\ files[k].path.type # "Figure"
          /\ CropWidth(files[k]) <= args.max_width
          /\ CropHeight(files[k]) <= args.max_width

\* C9: with fix_size true, a non-Figure crop higher than fix_length is
\* exported with height exactly fix_length and its width scaled by
\* fix_length / height (to the pixel below or above).
C9_FixedHeight ==
    \A k \in DOMAIN files :
        (files[k].path.type # "Figure" /\ args.fix_size
           /\ CropHeight(files[k]) > args.fix_length) =>
            /\ files[k].height = args.fix_length
            /\ files[k].width * CropHeight(files[k])
                  <= CropWidth(files[k]) * args.fix_length + CropHeight(files[k])
            /\ files[k].width * CropHeight(files[k])
                  >= CropWidth(files[k]) * args.fix_length - CropHeight(files[k])

\* C10: a Figure is never rescaled: its exported image has the width and the
\* height of its extended crop rectangle, whatever fix_size, fix_length and
\* max_width are.
C10_FigureNotRescaled ==
    \A k \in DOMAIN files :
        files[k].path.type = "Figure" =>
            /\ files[k].width = CropWidth(files[k])
            /\ files[k].height = CropHeight(files[k])

\* A Figure exported in fixed-height mode whose crop is higher than
\* fix_length and larger than max_width in both dimensions.
C10_Witness ==
    /\ args.fix_size
    /\ \E k \in DOMAIN files :
          /\ files[k].path.type = "Figure"
          /\ CropHeight(files[k]) > args.fix_length
          /\ CropHeight(files[k]) > args.max_width
          /\ CropWidth(files[k]) > args.max_width

InsidePage(b) ==
    /\ 0 <= b.x1 /\ b.x1 <= b.x2 /\ b.x2 <= page_width * Sub
    /\ 0 <= b.y1 /\ b.y1 <= b.y2 /\ b.y2 <= page_height * Sub

C12_SegmentsMatchFinalList ==
    pc = "returned" =>
        /\ Len(segments) = Len(layout)
        /\ \A k \in DOMAIN segments :
              /\ segments[k].type = layout[k].type
              /\ segments[k].image_path.dir = page_number
              /\ segments[k].image_path.type = layout[k].type
              /\ Len(segments[k].image_path.index) = 3
              /\ \A d \in 1..3 : segments[k].image_path.index[d] \in 0..9
              /\ IndexValue(segments[k].image_path.index) = k - 1

\* A finished page with at least four final blocks, one of them synthetic,
\* of at least two labels.
C12_Witness ==
    /\ pc = "returned"
    /\ Len(segments) >= 4
    /\ new_blocks # <<>>
    /\ \E i, j \in DOMAIN segments : segments[i].type # segments[j].type

\* C13: a segment whose image could not be written is never recorded and
\* stops the export: every recorded segment has its file in the store. (When
\* imwrite reports a failure, the claim has the segmentation abort with an
\* error, no Segment appended for the failed write, no later block processed.)
C13_WriteFailureAborts ==
    \A k \in DOMAIN segments :
        \E j \in DOMAIN files : files[j].path = segments[k].image_path

\* The extended rectangle of b is empty after the clamping to the page.
Degenerate(b) ==
    \/ crop_rect(b).x2 <= crop_rect(b).x1
    \/ crop_rect(b).y2 <= crop_rect(b).y1

\* C14: a block whose extended rectangle has zero width or zero height after
\* the clamping is guarded: its empty crop never reaches resize or imwrite
\* (which raise cv2.error for an empty image), and no segment with an empty
\* image is recorded.
C14_DegenerateCropGuarded ==
    /\ ~(/\ raised = "cv2.error"
         /\ idx < Len(layout)
         /\ Degenerate(layout[idx + 1]))
    /\ \A k \in DOMAIN segments : ~Degenerate(layout[k])

\* C15: a processor whose self.model is None (image_type other than
\* "research paper") raises ValueError from pdf_image_process before the
\* detection: nothing is detected, no block is ordered, no file is written
\* and self.segments stays empty (a caller may also drop the processor
\* without calling pdf_image_process).
C15_NoModelRaisesFirst ==
    (page_number # 0 /\ self_model = "None") =>
        /\ pc \in {"constructed", "raised", "call", "done"}
        /\ pc = "raised" => raised = "ValueError"
        /\ detected = <<>>
        /\ layout = <<>>
        /\ self_is_two_column = "unset"
        /\ new_blocks = <<>>
        /\ segments = <<>>
        /\ files = <<>>
        /\ ~layout_png

\* pdf_image_process was called on a processor without model and has raised.
C15_Witness ==
    /\ page_number # 0
    /\ self_model = "None"
    /\ pc = "raised"
    /\ raised = "ValueError"

\* The blocks b can become when its width grows (is_two_column reads only
\* the width x2 - x1): by nothing, by one pixel, half-way to the page width,
\* to the page width.
Widened(b) ==
    IF TextOrList(b)
    THEN { [b EXCEPT !.x2 = b.x1 + w] :
             w \in { b.x2 - b.x1,
                     Min(b.x2 - b.x1 + Sub, page_width * Sub),
                     Max(b.x2 - b.x1, (b.x2 - b.x1 + page_width * Sub) \div 2),
                     Max(b.x2 - b.x1, page_width * Sub) } }
    ELSE {b}

\* The lists l can become when each of its blocks is widened or left alone.
RECURSIVE WidenedLayouts(_)
WidenedLayouts(l) ==
    IF l = <<>> THEN {<<>>}
    ELSE { <<b>> \o t : b \in Widened(Head(l)), t \in WidenedLayouts(Tail(l)) }

ConstructStep == pc \in {"rasterized", "call"} /\ pc' = "constructed"

\* C18: over any sequence of constructions the detection model is built at
\* most once, by the first construction with image_type "research paper";
\* every processor of that type holds the one shared model, and a
\* construction with another image_type neither builds the model nor clears
\* the shared one.
C18_ModelLoadedOnce ==
    /\ [](/\ model_loads <= 1
          /\ cls_model = "None" <=> model_loads = 0
          /\ (page_number # 0 /\ image_type = "research paper") =>
                self_model # "None" /\ self_model = cls_model
          /\ (page_number # 0 /\ image_type # "research paper") =>
                self_model = "None")
    /\ [][/\ cls_model # "None" =>
                cls_model' = cls_model /\ model_loads' = model_loads
          /\ (ConstructStep /\ image_type' # "research paper") =>
                cls_model' = cls_model /\ model_loads' = model_loads
          /\ (ConstructStep /\ image_type' = "research paper"
                /\ cls_model = "None") => model_loads' = 1
          /\ ~ConstructStep =>
                cls_model' = cls_model /\ model_loads' = model_loads]_vars

\* The second processor of a run of convert_to_image has been built: the
\* model was built for the first and is shared.
C18_Witness ==
    /\ entry = "convert_to_image"
    /\ pdf_image_processors = <<1>>
    /\ page_number = 2
    /\ pc = "constructed"
    /\ model_loads = 1
    /\ self_model = cls_model

\* The steps of one page in convert_to_image, in program order.
PageSteps ==
    <<"loop", "rasterized", "constructed", "detected", "classified",
      "ordered", "export", "returned">>

FollowsInPage(a, b) ==
    \E i \in 1..(Len(PageSteps) - 1) : PageSteps[i] = a /\ PageSteps[i + 1] = b

\* C17: convert_to_image handles the pages one at a time and in page order:
\* the loop moves to page k+1 only when page k is finished (all its crops
\* exported and layout.png written, or, without process_image, rasterized),
\* within a page the steps rasterize, detect, classify, order, gap-patch,
\* crop/export follow one another in that order, and a crop is exported only
\* once the final order is fixed: the list does not change during the export.
C17_PagesOneAtATime ==
    /\ [](entry = "convert_to_image" =>
            /\ \A i \in DOMAIN image_paths : image_paths[i] = i
            /\ \A i \in DOMAIN pdf_image_processors :
                  pdf_image_processors[i] = i
            /\ Len(image_paths) \in {page - 1, page}
            /\ args.process_image =>
                  Len(pdf_image_processors) = page - 1)
    /\ [][entry = "convert_to_image" =>
            /\ \/ page' = page /\ pc' # "loop"
               \/ /\ page' = page + 1
                  /\ pc' = "loop"
                  /\ \/ /\ pc = "returned"
                        /\ idx = Len(layout)
                        /\ Len(segments) = Len(layout)
                        /\ layout_png
                     \/ pc = "rasterized" /\ ~args.process_image
            /\ \/ FollowsInPage(pc, pc')
               \/ pc = "export" /\ pc' = "export" /\ idx' = idx + 1
               \/ pc' = "loop"
               \/ pc' = "raised"
               \/ pc = "loop" /\ pc' = "done"
            /\ (pc # "rasterized" /\ (segments' # segments \/ files' # files)) =>
                  /\ pc = "export"
                  /\ pc' \in {"export", "raised"}
                  /\ layout' = layout
            /\ (pc # "rasterized" /\ layout' # layout) =>
                  /\ pc \in {"constructed", "classified", "ordered"}
                  /\ segments = <<>> /\ files = <<>>]_vars

\* convert_to_image is exporting the crops of page 2: page 1 is finished and
\* its processor kept.
C17_Witness ==
    /\ entry = "convert_to_image"
    /\ page = 2
    /\ image_paths = <<1, 2>>
    /\ pdf_image_processors = <<1>>
    /\ pc = "export"
    /\ idx >= 1
    /\ idx < Len(layout)

\* A written file of a non-Figure block rescaled in max-width mode: the
\* fixed-height branch does not apply and a crop dimension is above max_width.
MaxWidthScaled(f) ==
    /\ f.path.type # "Figure"
    /\ ~(args.fix_size /\ CropHeight(f) > args.fix_length)
    /\ (CropWidth(f) > args.max_width \/ CropHeight(f) > args.max_width)

\* C19: in max-width mode a non-Figure crop w x h with a dimension above
\* max_width is scaled by max_width / max(w, h): the larger dimension becomes
\* exactly max_width and the other floor(dim * max_width / max(w, h)).
C19_MaxWidthScaleExact ==
    \A k \in DOMAIN files :
        MaxWidthScaled(files[k]) =>
            LET w == CropWidth(files[k])
                h == CropHeight(files[k])
            IN  /\ files[k].width = (w * args.max_width) \div Max(w, h)
                /\ files[k].height = (h * args.max_width) \div Max(w, h)
                /\ Max(files[k].width, files[k].height) = args.max_width

\* A step of pdf_image_process after the detection.
SegmentationStep ==
    /\ pc \in {"detected", "classified", "ordered", "export"}
    /\ pc' \in {"classified", "ordered", "export", "returned", "raised"}

\* C20: segmentation never changes the rectangle or the label of a detected
\* block: each step only reorders the list or adds synthetic blocks to it, so
\* every detected block stays in the list as it was detected, and each
\* written crop is the extended rectangle of a block of the list whose
\* coordinates are those detected (or those of a synthetic block).
C20_DetectedBlocksUnchanged ==
    /\ [](pc \in {"detected", "classified", "ordered", "export", "returned"} =>
            /\ \A b \in Range(detected) :
                  Count(layout, b) >= Count(detected, b)
            /\ \A i \in DOMAIN layout :
                  layout[i] \in Range(detected) \cup Range(new_blocks)
            /\ \A k \in DOMAIN files :
                  \E b \in Range(detected) \cup Range(new_blocks) :
                      /\ b = FileBlock(files[k])
                      /\ files[k].path.type = b.type
                      /\ files[k].rect = crop_rect(b))
    /\ [][SegmentationStep =>
            /\ \A b \in Range(detected) : Count(detected', b) = Count(detected, b)
            /\ Len(detected') = Len(detected)
            /\ \A b \in Range(layout) : Count(layout', b) >= Count(layout, b)
            /\ Len(layout') - Len(layout) = Len(new_blocks') - Len(new_blocks)
            /\ \A k \in DOMAIN files : files'[k] = files[k]]_vars

\* Crops written for a list with a synthetic block in front of a detected
\* one: the detected block has moved down the list and is cropped where it
\* was detected.
C20_Witness ==
    /\ pc = "returned"
    /\ new_blocks # <<>>
    /\ \E i \in DOMAIN detected : detected[i] # layout[i]
    /\ \E k \in DOMAIN files :
          /\ FileBlock(files[k]) \in Range(detected)
          /\ IndexValue(files[k].path.index) + 1 \in DOMAIN detected
          /\ FileBlock(files[k]) # detected[IndexValue(files[k].path.index) + 1]

\* What a run on the detected list l (in list order after the sort) of page
\* pn exports for the k-th block of its final list, from max_width, fix_size
\* and fix_length alone.
ExportedFile(l, pn, k, max_width, fix_size, fix_length) ==
    LET final == sort_by_y1(l \o find_new_blocks(l, pn))
        img == rescale(crop(final[k]), final[k].type, max_width, fix_size,
                       fix_length)
    IN  [path |-> segment_path(pn, k - 1, final[k].type),
         rect |-> crop_rect(final[k]),
         width |-> img.width,
         height |-> img.height]

\* C21: image_enhance has no effect on the segmentation: what a run produces
\* (the final block order, the synthetic blocks, the segment paths and
\* labels, the exported sizes) is determined by the detected blocks, the page
\* number, max_width, fix_size and fix_length, so two runs that differ only
\* in image_enhance produce the same.
C21_ImageEnhanceNoEffect ==
    pc \in {"export", "returned"} =>
        /\ new_blocks = find_new_blocks(detected, page_number)
        /\ layout = sort_by_y1(detected \o find_new_blocks(detected, page_number))
        /\ \A k \in DOMAIN segments :
              /\ segments[k].type = layout[k].type
              /\ segments[k].image_path
                    = segment_path(page_number, k - 1, layout[k].type)
        /\ \A k \in DOMAIN files :
              files[k] = ExportedFile(detected, page_number,
                                      IndexValue(files[k].path.index) + 1,
                                      args.max_width, args.fix_size,
                                      args.fix_length)

\* A finished run with image_enhance set: a synthetic block, and a non-Figure
\* crop that was rescaled.
C21_Witness ==
    /\ args.image_enhance
    /\ pc = "returned"
    /\ new_blocks # <<>>
    /\ \E k \in DOMAIN files :
          /\ files[k].path.type # "Figure"
          /\ files[k].width < CropWidth(files[k])

ValidRectangle(b) == b.x1 < b.x2 /\ b.y1 < b.y2

\* C23: every synthetic block made by the gap patching is a valid rectangle,
\* x1 < x2 and y1 < y2, whenever the two neighbours it is derived from are
\* valid rectangles and their gap exceeds 100.
C23_SyntheticBlockValid ==
    [][GapPatchStep =>
         \A k \in DOMAIN new_blocks' : \A i \in GapPositions(layout) :
            (/\ new_blocks'[k].y1 = layout[i - 1].y2 + 9 * Sub
             /\ new_blocks'[k].y2 = layout[i].y1 - 7 * Sub
             /\ ValidRectangle(layout[i - 1])
             /\ ValidRectangle(layout[i])) =>
               ValidRectangle(new_blocks'[k])]_vars

\* Two synthetic blocks on one page, both valid rectangles.
C23_Witness ==
    /\ pc = "export"
    /\ Len(new_blocks) >= 2
    /\ \A k \in DOMAIN new_blocks : ValidRectangle(new_blocks[k])

\* C24: on a page whose ordered list is sorted by y1 when gap detection runs,
\* every synthetic block stands, after the re-sort, immediately between the two
\* blocks whose gap triggered it: directly after block[i-1] and directly before
\* block[i], no other detected or synthetic block between them.
C24_SyntheticBlockBetweenNeighbours ==
    [][(GapPatchStep /\ page_number # 1 /\ IsSortedByY1(layout)) =>
         \A i \in GapPositions(layout) :
            \E k \in 1..(Len(layout') - 2) :
               /\ layout'[k] = layout[i - 1]
               /\ layout'[k + 1] \in Range(new_blocks')
               /\ layout'[k + 1].y1 = layout[i - 1].y2 + 9 * Sub
               /\ layout'[k + 1].y2 = layout[i].y1 - 7 * Sub
               /\ layout'[k + 2] = layout[i]]_vars

\* A patched page of at least four blocks where a synthetic block stands
\* directly between two detected blocks and is not the second of the list.
C24_Witness ==
    /\ pc = "export"
    /\ idx = 0
    /\ Len(layout) >= 4
    /\ \E k \in 2..(Len(layout) - 2) :
          /\ layout[k] \in Range(detected)
          /\ layout[k + 1] \in Range(new_blocks)
          /\ layout[k + 2] \in Range(detected)

\* C25: gap patching closes every gap it detects and is idempotent: on a page
\* other than the first whose list was sorted by y1, no adjacent pair of the
\* re-sorted final list is more than 100 pixels apart, so gap detection run
\* again on the final list inserts nothing.
C25_GapPatchIdempotent ==
    [][(GapPatchStep /\ page_number # 1 /\ IsSortedByY1(layout)) =>
         /\ \A i \in 2..Len(layout') :
               layout'[i].y1 - layout'[i - 1].y2 <= 100 * Sub
         /\ find_new_blocks(layout', page_number) = <<>>]_vars

\* A patched page that had exactly one gap: one synthetic block was inserted
\* among at least two detected blocks and the final list has no gap left.
C25_Witness ==
    /\ pc = "export"
    /\ page_number # 1
    /\ Len(new_blocks) = 1
    /\ Len(layout) >= 3
    /\ GapPositions(detected) # {}
    /\ GapPositions(layout) = {}

\* The fixed-height rescale fires for the crop of file f.
FixedHeightFires(f) ==
    /\ f.path.type # "Figure"
    /\ args.fix_size
    /\ CropHeight(f) > args.fix_length

\* d is n or one less (the product in double precision can fall just short).
WithinOne(d, n) == d = n \/ d = n - 1

\* C26: the two rescale policies never both rescale one crop, and max-width
\* mode applies exactly when the fixed-height rescale does not fire (fix_size
\* false, or fix_size true and crop height <= fix_length). Where the
\* fixed-height rescale fires the exported image is its result alone (one side
\* fix_length, the other the crop's other side times fix_length / height),
\* not reduced further to max_width; everywhere else a non-Figure crop with a
\* side above max_width is scaled by max_width / max(w, h) and fits max_width,
\* and a crop within max_width is exported as it is. In particular with
\* fix_size true a crop of height <= fix_length and width > max_width fits
\* max_width when exported.
C26_RescalePoliciesExclusive ==
    \A k \in DOMAIN files :
        LET f == files[k]
            w == CropWidth(f)
            h == CropHeight(f)
            mw == args.max_width
        IN  f.path.type # "Figure" =>
              IF FixedHeightFires(f)
              THEN /\ f.width = args.fix_length
                   /\ WithinOne(f.height, (w * args.fix_length) \div h)
              ELSE IF w > mw \/ h > mw
                   THEN /\ Max(f.width, f.height) <= mw
                        /\ WithinOne(f.width, (w * mw) \div Max(w, h))
                        /\ WithinOne(f.height, (h * mw) \div Max(w, h))
                   ELSE f.width = w /\ f.height = h

\* A run with fix_size true that exported both a crop higher than fix_length,
\* rescaled by the fixed-height policy alone and left above max_width, and a
\* crop no higher than fix_length but wider than max_width, scaled down to fit
\* max_width.
C26_Witness ==
    /\ args.fix_size
    /\ \E k \in DOMAIN files :
          /\ FixedHeightFires(files[k])
          /\ Max(files[k].width, files[k].height) > args.max_width
    /\ \E k \in DOMAIN files :
          /\ files[k].path.type # "Figure"
          /\ CropHeight(files[k]) <= args.fix_length
          /\ CropWidth(files[k]) > args.max_width
          /\ files[k].width < CropWidth(files[k])
          /\ files[k].width <= args.max_width

\* C27: whenever a non-empty crop is rescaled, in either mode, both target
\* dimensions passed to cv2.resize are >= 1, so the resize of a non-empty crop
\* never raises: an export that stops with cv2.error stopped at a block whose
\* crop is empty.
C27_RescaleTargetPositive ==
    (raised = "cv2.error" /\ idx < Len(layout)) => Degenerate(layout[idx + 1])

\* C28: when pdf_image_process raises for page k, convert_to_image propagates
\* the error: nothing runs afterwards (no later page is rasterized or
\* segmented), pdf_image_processors holds exactly the processors of pages
\* 1..k-1 in page order and image_paths the paths of pages 1..k.
C28_ErrorStopsConversion ==
    /\ []((entry = "convert_to_image" /\ raised # "none") =>
            /\ pc = "raised"
            /\ page = page_number
            /\ image_paths = [i \in 1..page_number |-> i]
            /\ pdf_image_processors = [i \in 1..(page_number - 1) |-> i])
    /\ [][(entry = "convert_to_image" /\ raised # "none") =>
            UNCHANGED vars]_vars

\* convert_to_image stopped by an error of the second page's segmentation,
\* after the first page was processed and appended.
C28_Witness ==
    /\ entry = "convert_to_image"
    /\ raised # "none"
    /\ page_number = 2
    /\ pdf_image_processors = <<1>>
    /\ image_paths = <<1, 2>>

TagMapAtCall ==
    IF before.cache.loaded THEN before.cache.map ELSE before.server

\* The names of tag_names that the tag map lacks.
MissingNames == Range(call.tag_names) \ DOMAIN TagMapAtCall

\* C29: upload_document with tag_names and auto_create_tags true calls
\* create_tag exactly once for each distinct name missing from the tag map,
\* also when tag_names repeats the name, and never for a name the map has;
\* afterwards the tag cache maps every name of tag_names to the id sent in
\* the upload, in the order of tag_names.
C29_CreateOncePerMissingName ==
    (call.tag_names_given /\ ~call.tag_ids_given /\ call.auto_create_tags) =>
        /\ \A name \in Names :
              Count(create_calls, name) <=
                 (IF name \in MissingNames THEN 1 ELSE 0)
        /\ up_pc \in {"post", "done"} =>
              /\ \A name \in MissingNames : Count(create_calls, name) = 1
              /\ Len(resolved_tag_ids) = Len(call.tag_names)
              /\ \A j \in DOMAIN call.tag_names :
                    /\ call.tag_names[j] \in DOMAIN tags_cache.map
                    /\ tags_cache.map[call.tag_names[j]] = resolved_tag_ids[j]

\* The call gives both tag_ids and tag_names.
BothGiven == call.tag_ids_given /\ call.tag_names_given

\* The call gives tag_names with a name the tag map lacks, and
\* auto_create_tags false.
MissingNotCreated ==
    /\ ~call.tag_ids_given
    /\ call.tag_names_given
    /\ ~call.auto_create_tags
    /\ MissingNames # {}

\* What holds of every rejected call: it ends in ValueError if it has ended,
\* no tag is created and the document is not uploaded.
Rejected ==
    /\ up_pc \in {"call", "get_tags", "raised"}
    /\ up_pc = "raised" => up_raised = "ValueError"
    /\ create_calls = <<>>
    /\ server_tags = before.server
    /\ "POST /api/tags/" \notin Range(requests)
    /\ "POST /api/documents/post_document/" \notin Range(requests)

\* C30 as stated: upload_document rejects bad tag input without side
\* effects: with both tag_ids and tag_names it raises ValueError before any
\* request; with a name missing from the tag map and auto_create_tags false
\* it raises ValueError without creating a tag, without changing the tag
\* cache and without uploading.
C30_RejectWithoutSideEffects ==
    /\ BothGiven => (Rejected /\ requests = <<>> /\ tags_cache = before.cache)
    /\ MissingNotCreated => (Rejected /\ tags_cache = before.cache)

\* C30, amended: as stated, except that the rejection of a missing name
\* leaves the tag cache as it was only if it was loaded; a cache not loaded
\* yet is filled from the server's tag list by the one GET request of
\* get_tags before the ValueError.
C30_RejectLoadsCacheOnly ==
    /\ BothGiven => (Rejected /\ requests = <<>> /\ tags_cache = before.cache)
    /\ MissingNotCreated =>
          /\ Rejected
          /\ up_pc = "raised" =>
                IF before.cache.loaded
                THEN tags_cache = before.cache /\ requests = <<>>
                ELSE /\ tags_cache = [loaded |-> TRUE, map |-> before.server]
                     /\ requests = <<"GET /api/tags/">>
          /\ up_pc # "raised" => tags_cache = before.cache /\ requests = <<>>

\* A call rejected for a missing name on a client whose cache was not loaded:
\* ValueError, and the cache now holds the server's tags, the missing name not
\* among them.
C30_Witness ==
    /\ up_pc = "raised"
    /\ up_raised = "ValueError"
    /\ MissingNotCreated
    /\ ~before.cache.loaded
    /\ tags_cache.loaded
    /\ DOMAIN tags_cache.map # {}
    /\ create_calls = <<>>

====
